---------------------------- MODULE Spec2Model ----------------------------
(***************************************************************************)
(* A model of fruit's binding normalization                                *)
(* (src/src/binding_normalization.cpp):                                    *)
(*   - BindingNormalization::expandLazyComponents  (SpecExpand)            *)
(*   - BindingNormalization::addMultibindings      (SpecMulti)             *)
(*   - BindingNormalization::normalizeBindings     (SpecNormalize)         *)
(* Each routine is a single-threaded, run-to-completion pass; one action   *)
(* is one loop iteration (or one straight-line block) of the routine.      *)
(***************************************************************************)
EXTENDS Integers, Sequences, FiniteSets, TLC

(***************************************************************************)
(* Bounds of the model.                                                    *)
(***************************************************************************)
\* Number of distinct lazy components (distinct by content).
NumComponents == 3
\* Total number of install() calls in the program: those of the top-level
\* component plus those of every lazy component.
MaxInstallCalls == 4
\* addMultibindings: number of distinct multibound types, of provider
\* factories, and the longest raw multibinding list.
NumMultibindingTypes == 2
NumFactories == 2
MaxProviders == 3
\* normalizeBindings: number of distinct types, longest dependency list,
\* longest raw binding list, and the total number of entries of the four
\* input lists together.
NumTypes == 3
MaxDeps == 1
MaxBindings == 4
MaxInputSize == 4
\* Number of candidates of the inputs that bind every type once.
MaxCandidates == 2
\* Number of types of the inputs with candidates of different interfaces.
NumCompressionTypes == 4

VARIABLES
  \* ---- expandLazyComponents ----
  installs,                 \* input: for each lazy component, what its addBindings installs
  toplevel_installs,        \* input: the work-list as handed to expandLazyComponents
  lazy_components,          \* component.lazy_components (the work-list; back = last element)
  components_expansion_stack,
  components_with_expansion_in_progress,
  fully_expanded_components,
  expansion_log,            \* one record per addBindings call, in call order: the component
                            \* expanded and the component that installed it (0: the top level)
  loop_trace,               \* what printLazyComponentInstallationLoop wrote to std::cerr
  expand_pc,                \* "loop" | "done" (the while loop ended) | "fatal" (exit(1))
  \* ---- the allocator accumulator, filled in place by both other routines ----
  fixed_size_allocator_data,
  \* ---- addMultibindings ----
  raw_multibindings,        \* input: the multibinding list as passed in
  multibindings_at_entry,   \* input: the in/out table as passed in
  multibindingsVector,      \* the list being sorted and scanned
  multibindings,            \* the in/out table: TypeId -> NormalizedMultibindingData
  multi_next,               \* the iterator i of the merge loop (index of the next element)
  multi_pc,                 \* "sort" | "merge" | "done"
  \* ---- normalizeBindings ----
  bindings_vector,          \* input
  compressed_bindings_vector, \* input
  multibindings_vector,     \* input
  exposed_types,            \* input
  binding_data_map,         \* TypeId -> BindingData
  compressed_bindings_map,  \* CtypeId -> (ItypeId, bindingData)
  bindingCompressionInfoMap, \* output: CtypeId -> BindingCompressionInfo
  result,                   \* the returned vector
  dedup_next,               \* position of the first loop in bindings_vector
  rule3_pending,            \* keys of binding_data_map the loop at line 165 has yet to visit
  compress_pending,         \* keys of compressed_bindings_map the loop at line 189 has yet to visit
  norm_error,               \* what was written to std::cerr before exit(1)
  norm_pc                   \* which block of normalizeBindings runs next

vars_expand == <<installs, toplevel_installs, lazy_components, components_expansion_stack,
                 components_with_expansion_in_progress, fully_expanded_components,
                 expansion_log, loop_trace, expand_pc>>

vars_multi == <<fixed_size_allocator_data, raw_multibindings, multibindings_at_entry,
                multibindingsVector, multibindings, multi_next, multi_pc>>

vars_norm == <<bindings_vector, compressed_bindings_vector, multibindings_vector,
               exposed_types, binding_data_map, compressed_bindings_map,
               bindingCompressionInfoMap, result, dedup_next, rule3_pending,
               compress_pending, norm_error, norm_pc>>

vars == <<vars_expand, vars_multi, vars_norm>>

(***************************************************************************)
(* Generic helpers.                                                        *)
(***************************************************************************)
SeqsUpTo(S, n) == UNION {[1..k -> S] : k \in 0..n}

Back(s) == s[Len(s)]

PopBack(s) == SubSeq(s, 1, Len(s) - 1)

Range(s) == {s[k] : k \in 1..Len(s)}

Count(s, x) == Cardinality({k \in 1..Len(s) : s[k] = x})

\* The elements of a set of ids in ascending order.
RECURSIVE Ascending(_)
Ascending(S) ==
  IF S = {} THEN <<>>
  ELSE LET least == CHOOSE x \in S : \A y \in S : x <= y
       IN <<least>> \o Ascending(S \ {least})

\* A map (HashMap / std::unordered_map) is a function whose domain is the
\* set of its keys.
EmptyMap == <<>>

MapPut(m, k, v) == [x \in DOMAIN m \cup {k} |-> IF x = k THEN v ELSE m[x]]

MapErase(m, k) == [x \in DOMAIN m \ {k} |-> m[x]]

(***************************************************************************)
(* FixedSizeAllocator::FixedSizeAllocatorData: per type, how many          *)
(* instances need allocation and how many are externally allocated.        *)
(***************************************************************************)
NoAllocatorData == [types |-> EmptyMap, externally_allocated |-> EmptyMap]

CountOf(m, t) == IF t \in DOMAIN m THEN m[t] ELSE 0

addType(alloc, t) ==
  [alloc EXCEPT !.types = MapPut(@, t, CountOf(@, t) + 1)]

addExternallyAllocatedType(alloc, t) ==
  [alloc EXCEPT !.externally_allocated = MapPut(@, t, CountOf(@, t) + 1)]

(***************************************************************************)
(* expandLazyComponents                                                    *)
(***************************************************************************)
\* A lazy component is identified by its content (installer function and
\* arguments): two LazyComponent objects that compare equal are the same
\* element here.
Components == 1..NumComponents

\* std::unique_ptr<LazyComponent>(): the empty slot used as a boundary marker.
EmptyPtr == 0

ToplevelLine == [line |-> "toplevel", id |-> 0]
LoopStartsHereLine == [line |-> "loop starts here", id |-> 0]
ComponentLine(c) == [line |-> "component", id |-> c]

RECURSIVE StackLines(_, _)
StackLines(stack, last_component) ==
  IF stack = <<>> THEN <<>>
  ELSE (IF Head(stack) = last_component THEN <<LoopStartsHereLine>> ELSE <<>>)
       \o <<ComponentLine(Head(stack))>>
       \o StackLines(Tail(stack), last_component)

RECURSIVE StackLines_MarkAfterEntry(_, _)
StackLines_MarkAfterEntry(stack, last_component) ==
  IF stack = <<>> THEN <<>>
  ELSE <<ComponentLine(Head(stack))>>
       \o (IF Head(stack) = last_component THEN <<LoopStartsHereLine>> ELSE <<>>)
       \o StackLines_MarkAfterEntry(Tail(stack), last_component)

\* Mutant: the mark is written after the matching stack entry, not before.
printLoop_MarkAfterEntry(stack, last_component) ==
  <<ToplevelLine>> \o StackLines_MarkAfterEntry(stack, last_component)
                   \o <<ComponentLine(last_component)>>

\* The lines written to std::cerr after the two header lines.
printLazyComponentInstallationLoop(stack, last_component) ==
  <<ToplevelLine>> \o StackLines(stack, last_component) \o <<ComponentLine(last_component)>>

\* LazyComponent::addBindings(component): the component's own bindings are
\* added to the storage and each component it installs is appended to
\* component.lazy_components, in install order.
addBindings(c, worklist) == worklist \o installs[c]

\* Mutant: the set compares the owning pointers, not the components they
\* point to, so a re-installed component is never found.
IsFullyExpanded_ByAddress(c) == FALSE

\* fully_expanded_components.count(lazy_component)
IsFullyExpanded(c) == c \in fully_expanded_components

\* the slot the loop looks at: component.lazy_components.back()
NextSlot(worklist) == Back(worklist)

\* The marker is popped and the expansion stack is left as it is.
PopMarker_KeepsStack ==
  /\ expand_pc = "loop"
  /\ UNCHANGED <<vars_multi, vars_norm>>
  /\ lazy_components # <<>>
  /\ NextSlot(lazy_components) = EmptyPtr
  /\ components_expansion_stack # <<>>
  /\ lazy_components' = PopBack(lazy_components)
  /\ fully_expanded_components' =
       fully_expanded_components \cup {Back(components_expansion_stack)}
  /\ UNCHANGED <<installs, toplevel_installs, components_expansion_stack,
                 components_with_expansion_in_progress, expansion_log, loop_trace,
                 expand_pc>>

\* The marker moves the outermost component in progress, not the innermost.
PopMarker_MovesOutermost ==
  /\ expand_pc = "loop"
  /\ UNCHANGED <<vars_multi, vars_norm>>
  /\ lazy_components # <<>>
  /\ NextSlot(lazy_components) = EmptyPtr
  /\ components_expansion_stack # <<>>
  /\ lazy_components' = PopBack(lazy_components)
  /\ components_expansion_stack' = Tail(components_expansion_stack)
  /\ components_with_expansion_in_progress' =
       components_with_expansion_in_progress \ {Head(components_expansion_stack)}
  /\ fully_expanded_components' =
       fully_expanded_components \cup {Head(components_expansion_stack)}
  /\ UNCHANGED <<installs, toplevel_installs, expansion_log, loop_trace, expand_pc>>

\* The finished component is moved to the fully-expanded set and its
\* reference is left in the in-progress set.
PopMarker_KeepsReference ==
  /\ expand_pc = "loop"
  /\ UNCHANGED <<vars_multi, vars_norm>>
  /\ lazy_components # <<>>
  /\ NextSlot(lazy_components) = EmptyPtr
  /\ components_expansion_stack # <<>>
  /\ lazy_components' = PopBack(lazy_components)
  /\ components_expansion_stack' = PopBack(components_expansion_stack)
  /\ fully_expanded_components' =
       fully_expanded_components \cup {Back(components_expansion_stack)}
  /\ UNCHANGED <<installs, toplevel_installs, components_with_expansion_in_progress,
                 expansion_log, loop_trace, expand_pc>>

\* if (!lazy_component) { ... continue; }
PopMarker ==
  /\ expand_pc = "loop"
  /\ UNCHANGED <<vars_multi, vars_norm>>
  /\ lazy_components # <<>>
  /\ NextSlot(lazy_components) = EmptyPtr
  /\ IF components_expansion_stack = <<>>
     THEN \* back() of an empty vector: undefined behaviour
          /\ expand_pc' = "undefined"
          /\ UNCHANGED <<lazy_components, components_expansion_stack,
                         components_with_expansion_in_progress, fully_expanded_components>>
     ELSE /\ lazy_components' = PopBack(lazy_components)
          /\ components_expansion_stack' = PopBack(components_expansion_stack)
          /\ components_with_expansion_in_progress' =
               components_with_expansion_in_progress \ {Back(components_expansion_stack)}
          /\ fully_expanded_components' =
               fully_expanded_components \cup {Back(components_expansion_stack)}
          /\ UNCHANGED expand_pc
  /\ UNCHANGED <<installs, toplevel_installs, expansion_log, loop_trace>>

\* Mutant: the already-expanded component is left on the work-list.
SkipFullyExpanded_NoPop ==
  /\ expand_pc = "loop"
  /\ UNCHANGED <<vars_multi, vars_norm>>
  /\ lazy_components # <<>>
  /\ NextSlot(lazy_components) # EmptyPtr
  /\ IsFullyExpanded(NextSlot(lazy_components))
  /\ UNCHANGED vars_expand

\* if (fully_expanded_components.count(lazy_component)) { pop_back(); continue; }
SkipFullyExpanded ==
  /\ expand_pc = "loop"
  /\ UNCHANGED <<vars_multi, vars_norm>>
  /\ lazy_components # <<>>
  /\ NextSlot(lazy_components) # EmptyPtr
  /\ IsFullyExpanded(NextSlot(lazy_components))
  /\ lazy_components' = PopBack(lazy_components)
  /\ UNCHANGED <<installs, toplevel_installs, components_expansion_stack,
                 components_with_expansion_in_progress, fully_expanded_components,
                 expansion_log, loop_trace, expand_pc>>

\* Reports a loop for a component found in either set.
InstallationLoop_OnAnyReinstall ==
  /\ expand_pc = "loop"
  /\ UNCHANGED <<vars_multi, vars_norm>>
  /\ lazy_components # <<>>
  /\ NextSlot(lazy_components) # EmptyPtr
  /\ NextSlot(lazy_components) \in
       components_with_expansion_in_progress \cup fully_expanded_components
  /\ loop_trace' = printLazyComponentInstallationLoop(components_expansion_stack,
                                                      NextSlot(lazy_components))
  /\ expand_pc' = "fatal"
  /\ UNCHANGED <<installs, toplevel_installs, lazy_components, components_expansion_stack,
                 components_with_expansion_in_progress, fully_expanded_components,
                 expansion_log>>

\* if (!actually_inserted) { printLazyComponentInstallationLoop(...); exit(1); }
InstallationLoop ==
  /\ expand_pc = "loop"
  /\ UNCHANGED <<vars_multi, vars_norm>>
  /\ lazy_components # <<>>
  /\ NextSlot(lazy_components) # EmptyPtr
  /\ ~IsFullyExpanded(NextSlot(lazy_components))
  /\ NextSlot(lazy_components) \in components_with_expansion_in_progress
  /\ loop_trace' = printLazyComponentInstallationLoop(components_expansion_stack,
                                                      NextSlot(lazy_components))
  /\ expand_pc' = "fatal"
  /\ UNCHANGED <<installs, toplevel_installs, lazy_components, components_expansion_stack,
                 components_with_expansion_in_progress, fully_expanded_components,
                 expansion_log>>

\* Mutant: the marker is pushed after the component's installs instead of
\* replacing the component's own slot before addBindings runs.
ExpandComponent_MarkerAfterInstalls ==
  /\ expand_pc = "loop"
  /\ UNCHANGED <<vars_multi, vars_norm>>
  /\ lazy_components # <<>>
  /\ NextSlot(lazy_components) # EmptyPtr
  /\ ~IsFullyExpanded(NextSlot(lazy_components))
  /\ NextSlot(lazy_components) \notin components_with_expansion_in_progress
  /\ LET c == NextSlot(lazy_components) IN
       /\ components_with_expansion_in_progress' =
            components_with_expansion_in_progress \cup {c}
       /\ components_expansion_stack' = Append(components_expansion_stack, c)
       /\ lazy_components' = Append(addBindings(c, PopBack(lazy_components)), EmptyPtr)
       /\ expansion_log' = Append(expansion_log,
            [component |-> c,
             installed_by |-> IF components_expansion_stack = <<>> THEN 0
                              ELSE Back(components_expansion_stack)])
  /\ UNCHANGED <<installs, toplevel_installs, fully_expanded_components, loop_trace, expand_pc>>

\* The rest of the loop body: insert into the in-progress set, put the
\* marker, push on the expansion stack, call addBindings.
ExpandComponent ==
  /\ expand_pc = "loop"
  /\ UNCHANGED <<vars_multi, vars_norm>>
  /\ lazy_components # <<>>
  /\ NextSlot(lazy_components) # EmptyPtr
  /\ ~IsFullyExpanded(NextSlot(lazy_components))
  /\ NextSlot(lazy_components) \notin components_with_expansion_in_progress
  /\ LET c == NextSlot(lazy_components) IN
       /\ components_with_expansion_in_progress' =
            components_with_expansion_in_progress \cup {c}
       /\ components_expansion_stack' = Append(components_expansion_stack, c)
       /\ lazy_components' = addBindings(c, Append(PopBack(lazy_components), EmptyPtr))
       /\ expansion_log' = Append(expansion_log,
            [component |-> c,
             installed_by |-> IF components_expansion_stack = <<>> THEN 0
                              ELSE Back(components_expansion_stack)])
  /\ UNCHANGED <<installs, toplevel_installs, fully_expanded_components, loop_trace, expand_pc>>

\* while (!component.lazy_components.empty()) is false: the function returns.
ExpandReturn ==
  /\ expand_pc = "loop"
  /\ UNCHANGED <<vars_multi, vars_norm>>
  /\ lazy_components = <<>>
  /\ expand_pc' = "done"
  /\ UNCHANGED <<installs, toplevel_installs, lazy_components, components_expansion_stack,
                 components_with_expansion_in_progress, fully_expanded_components,
                 expansion_log, loop_trace>>

\* normalizeBindings is not running.
NormalizeIdle ==
  /\ bindings_vector = <<>>
  /\ compressed_bindings_vector = <<>>
  /\ multibindings_vector = <<>>
  /\ exposed_types = <<>>
  /\ binding_data_map = EmptyMap
  /\ compressed_bindings_map = EmptyMap
  /\ bindingCompressionInfoMap = EmptyMap
  /\ result = <<>>
  /\ dedup_next = 1
  /\ rule3_pending = {}
  /\ compress_pending = {}
  /\ norm_error = <<>>
  /\ norm_pc = "idle"

\* addMultibindings is not running (the accumulator is untouched).
MultiIdle ==
  /\ raw_multibindings = <<>>
  /\ multibindings_at_entry = EmptyMap
  /\ multibindingsVector = <<>>
  /\ multibindings = EmptyMap
  /\ multi_next = 1
  /\ multi_pc = "idle"

\* Node 0 stands for the top-level component, whose installs are the
\* work-list handed to expandLazyComponents.
InstallerNodes == 0..NumComponents

\* Every program with at most e install() calls.
RECURSIVE InstallGraphs(_)
InstallGraphs(e) ==
  IF e = 0 THEN {[n \in InstallerNodes |-> <<>>]}
  ELSE LET G == InstallGraphs(e - 1) IN
       G \cup {[g EXCEPT ![p] = Append(@, c)] : g \in G, p \in InstallerNodes, c \in Components}

InitExpand ==
  /\ fixed_size_allocator_data = NoAllocatorData
  /\ \E g \in InstallGraphs(MaxInstallCalls) :
       /\ installs = [c \in Components |-> g[c]]
       /\ toplevel_installs = g[0]
  /\ lazy_components = toplevel_installs
  /\ components_expansion_stack = <<>>
  /\ components_with_expansion_in_progress = {}
  /\ fully_expanded_components = {}
  /\ expansion_log = <<>>
  /\ loop_trace = <<>>
  /\ expand_pc = "loop"
  /\ MultiIdle
  /\ NormalizeIdle

NextExpand ==
  \/ PopMarker
  \/ SkipFullyExpanded
  \/ InstallationLoop
  \/ ExpandComponent
  \/ ExpandReturn

\* expandLazyComponents runs to completion on one thread: a step that can
\* be taken is taken.
SpecExpand == InitExpand /\ [][NextExpand]_vars /\ WF_vars(NextExpand)

(***************************************************************************)
(* addMultibindings                                                        *)
(***************************************************************************)
MultibindingTypeIds == 1..NumMultibindingTypes

Factories == 1..NumFactories

\* The get_multibindings_vector of a default-constructed
\* NormalizedMultibindingData (what multibindings[x.first] creates).
NullAccessor == 0

\* The "get all instances" accessor of type t: one function per type,
\* shared by all the providers of t.
AccessorFor(t) == t

\* NormalizedMultibindingData::Elem(multibinding_data): the provider's
\* factory, with no object created yet.
Elem(data) == [create |-> data.create]

DefaultNormalizedMultibindingData == [elems |-> <<>>, get_multibindings_vector |-> NullAccessor]

Injections(n) == {f \in [1..n -> 1..n] : \A a, b \in 1..n : f[a] = f[b] => a = b}

\* typeInfoLessThanForMultibindings
typeInfoLessThanForMultibindings(x, y) == x.type < y.type

\* std::sort with typeInfoLessThanForMultibindings: some permutation of v in
\* which no element is less than an earlier one (std::sort is not stable).
SortResults(v) ==
  {w \in {[k \in 1..Len(v) |-> v[f[k]]] : f \in Injections(Len(v))} :
     \A a, b \in 1..Len(w) : a < b => ~typeInfoLessThanForMultibindings(w[b], w[a])}

\* The last index of the run of elements of v of the type of v[i] that
\* starts at i (where the inner for loop stops).
RECURSIVE RunEnd(_, _, _)
RunEnd(v, i, j) ==
  IF j + 1 <= Len(v) /\ v[j + 1].type = v[i].type THEN RunEnd(v, i, j + 1) ELSE j

\* Counts the provider that opens the run and no other.
CountRun_FirstOnly(alloc, v, i, j) ==
  IF v[i].data.needs_allocation
  THEN addType(alloc, v[i].type)
  ELSE addExternallyAllocatedType(alloc, v[i].type)

\* The allocator calls of the inner loop for the elements i..j.
RECURSIVE CountRun(_, _, _, _)
CountRun(alloc, v, i, j) ==
  IF i > j THEN alloc
  ELSE CountRun(IF v[i].data.needs_allocation
                THEN addType(alloc, v[i].type)
                ELSE addExternallyAllocatedType(alloc, v[i].type),
                v, i + 1, j)

\* std::sort(multibindingsVector.begin(), multibindingsVector.end(), ...)
SortMultibindings ==
  /\ multi_pc = "sort"
  /\ UNCHANGED <<vars_expand, vars_norm>>
  /\ \E w \in SortResults(multibindingsVector) : multibindingsVector' = w
  /\ multi_next' = 1
  /\ multi_pc' = "merge"
  /\ UNCHANGED <<fixed_size_allocator_data, raw_multibindings, multibindings_at_entry,
                 multibindings>>

\* Mutant: the inner loop starts after x, so the first provider of each
\* run is not inserted.
MergeGroup_SkipsFirst ==
  /\ multi_pc = "merge"
  /\ UNCHANGED <<vars_expand, vars_norm>>
  /\ multi_next <= Len(multibindingsVector)
  /\ LET x == multibindingsVector[multi_next]
         last == RunEnd(multibindingsVector, multi_next, multi_next)
         b == IF x.type \in DOMAIN multibindings THEN multibindings[x.type]
              ELSE DefaultNormalizedMultibindingData
     IN /\ multibindings' = MapPut(multibindings, x.type,
             [elems |-> b.elems \o [k \in 1..(last - multi_next) |->
                                      Elem(multibindingsVector[multi_next + k].data)],
              get_multibindings_vector |-> x.data.get_multibindings_vector])
        /\ fixed_size_allocator_data' =
             CountRun(fixed_size_allocator_data, multibindingsVector, multi_next, last)
        /\ multi_next' = last + 1
  /\ UNCHANGED <<raw_multibindings, multibindings_at_entry, multibindingsVector, multi_pc>>

\* One iteration of the outer for loop: the run of one type.
MergeGroup ==
  /\ multi_pc = "merge"
  /\ UNCHANGED <<vars_expand, vars_norm>>
  /\ multi_next <= Len(multibindingsVector)
  /\ LET x == multibindingsVector[multi_next]
         last == RunEnd(multibindingsVector, multi_next, multi_next)
         b == IF x.type \in DOMAIN multibindings THEN multibindings[x.type]
              ELSE DefaultNormalizedMultibindingData
     IN /\ multibindings' = MapPut(multibindings, x.type,
             [elems |-> b.elems \o [k \in 1..(last - multi_next + 1) |->
                                      Elem(multibindingsVector[multi_next + k - 1].data)],
              get_multibindings_vector |-> x.data.get_multibindings_vector])
        /\ fixed_size_allocator_data' =
             CountRun(fixed_size_allocator_data, multibindingsVector, multi_next, last)
        /\ multi_next' = last + 1
  /\ UNCHANGED <<raw_multibindings, multibindings_at_entry, multibindingsVector, multi_pc>>

\* i == multibindingsVector.end(): the function returns.
MultiReturn ==
  /\ multi_pc = "merge"
  /\ UNCHANGED <<vars_expand, vars_norm>>
  /\ multi_next > Len(multibindingsVector)
  /\ multi_pc' = "done"
  /\ UNCHANGED <<fixed_size_allocator_data, raw_multibindings, multibindings_at_entry,
                 multibindingsVector, multibindings, multi_next>>

\* expandLazyComponents is not running.
ExpandIdle ==
  /\ installs = [c \in Components |-> <<>>]
  /\ toplevel_installs = <<>>
  /\ lazy_components = <<>>
  /\ components_expansion_stack = <<>>
  /\ components_with_expansion_in_progress = {}
  /\ fully_expanded_components = {}
  /\ expansion_log = <<>>
  /\ loop_trace = <<>>
  /\ expand_pc = "idle"

\* A provider of type t: the routine reads its factory, its allocation
\* flag and its accessor, never its deps.
Providers ==
  {[type |-> t,
    data |-> [create |-> f, has_deps |-> FALSE, deps |-> <<>>, needs_allocation |-> a,
              get_multibindings_vector |-> AccessorFor(t)]] :
     t \in MultibindingTypeIds, f \in Factories, a \in BOOLEAN}

\* The in/out table as passed in: empty, or holding the entry of one type
\* from an earlier call.
TablesAtEntry ==
  {EmptyMap} \cup
  {MapPut(EmptyMap, t, [elems |-> <<Elem([create |-> f])>>,
                        get_multibindings_vector |-> AccessorFor(t)]) :
     t \in MultibindingTypeIds, f \in Factories}

InitMulti ==
  /\ ExpandIdle
  /\ NormalizeIdle
  /\ raw_multibindings \in SeqsUpTo(Providers, MaxProviders)
  /\ multibindings_at_entry \in TablesAtEntry
  /\ multibindingsVector = raw_multibindings
  /\ multibindings = multibindings_at_entry
  /\ fixed_size_allocator_data = NoAllocatorData
  /\ multi_next = 1
  /\ multi_pc = "sort"

NextMulti ==
  \/ SortMultibindings
  \/ MergeGroup
  \/ MultiReturn

SpecMulti == InitMulti /\ [][NextMulti]_vars /\ WF_vars(NextMulti)

(***************************************************************************)
(* normalizeBindings                                                       *)
(***************************************************************************)
\* A TypeId is an opaque token: the routine only compares and hashes it.
TypeIds == 1..NumTypes

\* BindingData: an object already constructed, or a dependency list with a
\* create operation; it says whether it needs allocation and compares by
\* value.
CreatedObject == [created |-> TRUE, deps |-> <<>>, needs_allocation |-> FALSE]

BindingDataValues ==
  {CreatedObject} \cup
  {[created |-> FALSE, deps |-> d, needs_allocation |-> a] :
     d \in SeqsUpTo(TypeIds, MaxDeps), a \in BOOLEAN}

isCreated(binding_data) == binding_data.created

getDeps(binding_data) == binding_data.deps

needsAllocation(binding_data) == binding_data.needs_allocation

\* The text multipleBindingsError(type) returns: it names the type.
multipleBindingsError(type) == [error |-> "provided more than once, with different bindings",
                                type |-> type]

\* All the orders in which a hash map may hand out the keys in S.
Orderings(S) == {f \in [1..Cardinality(S) -> S] : \A a, b \in 1..Cardinality(S) : f[a] = f[b] => a = b}

\* Keeps the entry met first whatever the data of a repeated type.
DedupOutcome_IgnoresData(table, p) ==
  IF p.type \in DOMAIN table THEN "duplicate" ELSE "new"

\* Rejects every repeated type.
DedupOutcome_RejectsRepeats(table, p) ==
  IF p.type \in DOMAIN table THEN "fatal" ELSE "new"

\* What the body of the first loop does with the raw entry p: BindingData
\* compares by value.
DedupOutcome(table, p) ==
  IF p.type \in DOMAIN table
  THEN IF ~(p.data = table[p.type]) THEN "fatal" ELSE "duplicate"
  ELSE "new"

\* for (auto& p : bindings_vector) { ... }: one iteration of the first loop.
DedupStep ==
  /\ norm_pc = "dedup"
  /\ UNCHANGED <<vars_expand, vars_multi>>
  /\ dedup_next <= Len(bindings_vector)
  /\ LET p == bindings_vector[dedup_next]
         outcome == DedupOutcome(binding_data_map, p)
     IN IF outcome = "fatal"
        THEN \* std::cerr << multipleBindingsError(p.first); exit(1);
             /\ norm_error' = multipleBindingsError(p.type)
             /\ norm_pc' = "fatal"
             /\ UNCHANGED <<binding_data_map, dedup_next>>
        ELSE /\ binding_data_map' =
                  IF outcome = "new"
                  THEN MapPut(binding_data_map, p.type, p.data)
                  ELSE binding_data_map
             /\ dedup_next' = dedup_next + 1
             /\ UNCHANGED <<norm_error, norm_pc>>
  /\ UNCHANGED <<fixed_size_allocator_data, bindings_vector, compressed_bindings_vector,
                 multibindings_vector, exposed_types, compressed_bindings_map,
                 bindingCompressionInfoMap, result, rule3_pending, compress_pending>>

\* Counts one call per type instead of one per raw entry.
RECURSIVE CountBindings_OncePerType(_, _, _)
CountBindings_OncePerType(alloc, v, k) ==
  IF k > Len(v) THEN alloc
  ELSE CountBindings_OncePerType(
         IF \E j \in 1..(k - 1) : v[j].type = v[k].type THEN alloc
         ELSE IF needsAllocation(v[k].data)
              THEN addType(alloc, v[k].type)
              ELSE addExternallyAllocatedType(alloc, v[k].type),
         v, k + 1)

\* The allocator calls of the second loop for the entries from position k on.
RECURSIVE CountBindings(_, _, _)
CountBindings(alloc, v, k) ==
  IF k > Len(v) THEN alloc
  ELSE CountBindings(IF needsAllocation(v[k].data)
                     THEN addType(alloc, v[k].type)
                     ELSE addExternallyAllocatedType(alloc, v[k].type),
                     v, k + 1)

\* The first loop has ended; for (const auto& p : bindings_vector) { ... }:
\* the second loop, which feeds the allocator accumulator.
AllocatorPass ==
  /\ norm_pc = "dedup"
  /\ UNCHANGED <<vars_expand, raw_multibindings, multibindings_at_entry, multibindingsVector,
                 multibindings, multi_next, multi_pc>>
  /\ dedup_next > Len(bindings_vector)
  /\ fixed_size_allocator_data' = CountBindings(fixed_size_allocator_data, bindings_vector, 1)
  /\ norm_pc' = "candidates"
  /\ UNCHANGED <<bindings_vector, compressed_bindings_vector, multibindings_vector,
                 exposed_types, binding_data_map, compressed_bindings_map,
                 bindingCompressionInfoMap, result, dedup_next, rule3_pending,
                 compress_pending, norm_error>>

\* Keeps the first candidate of a class: a later one does not replace it.
RECURSIVE PutCandidates_FirstWins(_, _, _)
PutCandidates_FirstWins(m, v, k) ==
  IF k > Len(v) THEN m
  ELSE PutCandidates_FirstWins(
         IF v[k].class_id \in DOMAIN m THEN m
         ELSE MapPut(m, v[k].class_id,
                     [interface_id |-> v[k].interface_id,
                      binding_data |-> v[k].binding_data]),
         v, k + 1)

\* compressed_bindings_map[class_id] = {interface_id, binding_data} for the
\* candidates from position k on: a later candidate of a class replaces an
\* earlier one.
RECURSIVE PutCandidates(_, _, _)
PutCandidates(m, v, k) ==
  IF k > Len(v) THEN m
  ELSE PutCandidates(MapPut(m, v[k].class_id,
                            [interface_id |-> v[k].interface_id,
                             binding_data |-> v[k].binding_data]),
                     v, k + 1)

\* Remove duplicates from compressed_bindings_vector.
BuildCompressedBindingsMap ==
  /\ norm_pc = "candidates"
  /\ UNCHANGED <<vars_expand, vars_multi>>
  /\ compressed_bindings_map' = PutCandidates(EmptyMap, compressed_bindings_vector, 1)
  /\ norm_pc' = "multibinding deps"
  /\ UNCHANGED <<bindings_vector, compressed_bindings_vector, multibindings_vector,
                 exposed_types, binding_data_map, bindingCompressionInfoMap, result,
                 dedup_next, rule3_pending, compress_pending, norm_error>>

EraseAll_None(m, types, k) == m

\* compressed_bindings_map.erase(t) for the types of the list from position k on.
RECURSIVE EraseAll(_, _, _)
EraseAll(m, types, k) ==
  IF k > Len(types) THEN m ELSE EraseAll(MapErase(m, types[k]), types, k + 1)

\* The erasures of the multibindings from position k on (a multibinding
\* whose deps pointer is null erases nothing).
RECURSIVE EraseMultibindingDepsFrom(_, _, _)
EraseMultibindingDepsFrom(m, v, k) ==
  IF k > Len(v) THEN m
  ELSE EraseMultibindingDepsFrom(IF v[k].data.has_deps THEN EraseAll(m, v[k].data.deps, 1) ELSE m,
                                 v, k + 1)

\* We can't compress the binding if C is a dep of a multibinding.
EraseMultibindingDeps ==
  /\ norm_pc = "multibinding deps"
  /\ UNCHANGED <<vars_expand, vars_multi>>
  /\ compressed_bindings_map' =
       EraseMultibindingDepsFrom(compressed_bindings_map, multibindings_vector, 1)
  /\ norm_pc' = "exposed types"
  /\ UNCHANGED <<bindings_vector, compressed_bindings_vector, multibindings_vector,
                 exposed_types, binding_data_map, bindingCompressionInfoMap, result,
                 dedup_next, rule3_pending, compress_pending, norm_error>>

\* We can't compress the binding if C is an exposed type.
EraseExposedTypes ==
  /\ norm_pc = "exposed types"
  /\ UNCHANGED <<vars_expand, vars_multi>>
  /\ compressed_bindings_map' = EraseAll(compressed_bindings_map, exposed_types, 1)
  /\ rule3_pending' = DOMAIN binding_data_map
  /\ norm_pc' = "dependencies"
  /\ UNCHANGED <<bindings_vector, compressed_bindings_vector, multibindings_vector,
                 exposed_types, binding_data_map, bindingCompressionInfoMap, result,
                 dedup_next, compress_pending, norm_error>>

\* The deps of x_id are read and no candidate is erased.
EraseDependedOn_KeepsAll(m, x_id, deps, k) == m

\* The inner loop at line 169 for the deps of x_id from position k on: the
\* candidate of a dep is erased when its interface is not x_id.
RECURSIVE EraseDependedOn(_, _, _, _)
EraseDependedOn(m, x_id, deps, k) ==
  IF k > Len(deps) THEN m
  ELSE EraseDependedOn(IF deps[k] \in DOMAIN m /\ m[deps[k]].interface_id # x_id
                       THEN MapErase(m, deps[k]) ELSE m,
                       x_id, deps, k + 1)

\* Visits one type of the table and ends the loop.
DependencyStep_VisitsOneType ==
  /\ norm_pc = "dependencies"
  /\ UNCHANGED <<vars_expand, vars_multi>>
  /\ \E x_id \in rule3_pending :
       /\ compressed_bindings_map' =
            IF ~isCreated(binding_data_map[x_id])
            THEN EraseDependedOn(compressed_bindings_map, x_id,
                                 getDeps(binding_data_map[x_id]), 1)
            ELSE compressed_bindings_map
       /\ rule3_pending' = {}
  /\ UNCHANGED <<bindings_vector, compressed_bindings_vector, multibindings_vector,
                 exposed_types, binding_data_map, bindingCompressionInfoMap, result,
                 dedup_next, compress_pending, norm_error, norm_pc>>

\* We can't compress the binding if some type X depends on C and X != I:
\* one iteration of the loop over binding_data_map, in the map's order.
DependencyStep ==
  /\ norm_pc = "dependencies"
  /\ UNCHANGED <<vars_expand, vars_multi>>
  /\ \E x_id \in rule3_pending :
       /\ compressed_bindings_map' =
            IF ~isCreated(binding_data_map[x_id])
            THEN EraseDependedOn(compressed_bindings_map, x_id,
                                 getDeps(binding_data_map[x_id]), 1)
            ELSE compressed_bindings_map
       /\ rule3_pending' = rule3_pending \ {x_id}
  /\ UNCHANGED <<bindings_vector, compressed_bindings_vector, multibindings_vector,
                 exposed_types, binding_data_map, bindingCompressionInfoMap, result,
                 dedup_next, compress_pending, norm_error, norm_pc>>

\* bindingCompressionInfoMap = createHashMap(...): the loop over
\* binding_data_map has ended and the compression loop starts.
StartCompression ==
  /\ norm_pc = "dependencies"
  /\ UNCHANGED <<vars_expand, vars_multi>>
  /\ rule3_pending = {}
  /\ bindingCompressionInfoMap' = EmptyMap
  /\ compress_pending' = DOMAIN compressed_bindings_map
  /\ norm_pc' = "compression"
  /\ UNCHANGED <<bindings_vector, compressed_bindings_vector, multibindings_vector,
                 exposed_types, binding_data_map, compressed_bindings_map, result,
                 dedup_next, rule3_pending, norm_error>>

\* Records the data of the class as the data of the interface.
BindingCompressionInfo_ClassDataTwice(i_id, i_binding_data, c_binding_data) ==
  [i_type_id |-> i_id, i_binding_data |-> c_binding_data, c_binding_data |-> c_binding_data]

\* BindingCompressionInfo{i_id, i_binding_data->second, c_binding_data->second}
BindingCompressionInfo(i_id, i_binding_data, c_binding_data) ==
  [i_type_id |-> i_id, i_binding_data |-> i_binding_data, c_binding_data |-> c_binding_data]

\* Overwrites the class and erases the interface.
ApplyCompression_ErasesInterface(table, c_id, i_id, binding_data) ==
  MapErase(MapPut(table, c_id, binding_data), i_id)

ApplyCompression_KeepsClass(table, c_id, i_id, binding_data) ==
  MapPut(table, i_id, binding_data)

\* i_binding_data->second = binding_data; binding_data_map.erase(c_binding_data);
ApplyCompression(table, c_id, i_id, binding_data) ==
  MapErase(MapPut(table, i_id, binding_data), c_id)

\* Now perform the binding compression: one iteration of the loop over
\* compressed_bindings_map, in the map's order. FruitAssert aborts in a
\* debug build and is nothing in a release build.
CompressStep ==
  /\ norm_pc = "compression"
  /\ UNCHANGED <<vars_expand, vars_multi>>
  /\ \E c_id \in compress_pending, debug_build \in BOOLEAN :
       LET i_id == compressed_bindings_map[c_id].interface_id
           binding_data == compressed_bindings_map[c_id].binding_data
       IN IF i_id \notin DOMAIN binding_data_map \/ c_id \notin DOMAIN binding_data_map
          THEN \* a failed FruitAssert, or an end() iterator dereferenced
               /\ norm_pc' = IF debug_build THEN "aborted" ELSE "undefined"
               /\ UNCHANGED <<binding_data_map, bindingCompressionInfoMap, compress_pending>>
          ELSE /\ bindingCompressionInfoMap' =
                    MapPut(bindingCompressionInfoMap, c_id,
                           BindingCompressionInfo(i_id, binding_data_map[i_id],
                                                  binding_data_map[c_id]))
               /\ IF debug_build /\ needsAllocation(binding_data_map[i_id])
                  THEN /\ norm_pc' = "aborted"
                       /\ UNCHANGED <<binding_data_map, compress_pending>>
                  ELSE /\ binding_data_map' =
                            ApplyCompression(binding_data_map, c_id, i_id, binding_data)
                       /\ compress_pending' = compress_pending \ {c_id}
                       /\ UNCHANGED norm_pc
  /\ UNCHANGED <<bindings_vector, compressed_bindings_vector, multibindings_vector,
                 exposed_types, compressed_bindings_map, result, dedup_next,
                 rule3_pending, norm_error>>

\* Copy the normalized bindings into the result vector, in the map's order.
CopyResult ==
  /\ norm_pc = "compression"
  /\ UNCHANGED <<vars_expand, vars_multi>>
  /\ compress_pending = {}
  /\ \E order \in Orderings(DOMAIN binding_data_map) :
       result' = [k \in 1..Cardinality(DOMAIN binding_data_map) |->
                    [type |-> order[k], data |-> binding_data_map[order[k]]]]
  /\ norm_pc' = "done"
  /\ UNCHANGED <<bindings_vector, compressed_bindings_vector, multibindings_vector,
                 exposed_types, binding_data_map, compressed_bindings_map,
                 bindingCompressionInfoMap, dedup_next, rule3_pending, compress_pending,
                 norm_error>>

\* The types bound by a raw binding list.
BoundTypes(v) == {v[k].type : k \in 1..Len(v)}

\* TypeIds are opaque, so the types of the raw list are numbered in the
\* order in which they first appear.
NumberedByFirstUse(v) ==
  \A k \in 1..Len(v) : \A t \in 1..(v[k].type - 1) : \E j \in 1..(k - 1) : v[j].type = t

RawBindings == {[type |-> t, data |-> d] : t \in TypeIds, d \in BindingDataValues}

\* The candidates a caller may pass for the raw list v: the class and the
\* interface are two bound types.
CompressedBindings(v) ==
  {b \in [class_id : BoundTypes(v), interface_id : BoundTypes(v),
           binding_data : BindingDataValues] : b.class_id # b.interface_id}

\* The C of a compressible binding is never itself the I of one (line 182).
NoChain(cv) == \A a, b \in 1..Len(cv) : cv[a].class_id # cv[b].interface_id

\* A multibinding as normalizeBindings reads it: only its deps matter.
MultibindingData(has_deps, deps) ==
  [type |-> 1,
   data |-> [create |-> 1, has_deps |-> has_deps, deps |-> deps, needs_allocation |-> FALSE,
             get_multibindings_vector |-> AccessorFor(1)]]

MultibindingsWithDeps ==
  {MultibindingData(FALSE, <<>>)} \cup
  {MultibindingData(TRUE, d) : d \in SeqsUpTo(TypeIds, MaxDeps)}

\* Inputs of at most MaxInputSize entries in all, with raw bindings that may
\* repeat a type.
SmallInputs ==
  /\ bindings_vector \in {v \in SeqsUpTo(RawBindings, MaxBindings) : NumberedByFirstUse(v)}
  /\ compressed_bindings_vector \in
       {cv \in SeqsUpTo(CompressedBindings(bindings_vector),
                        MaxInputSize - Len(bindings_vector)) : NoChain(cv)}
  /\ multibindings_vector \in
       SeqsUpTo(MultibindingsWithDeps,
                MaxInputSize - Len(bindings_vector) - Len(compressed_bindings_vector))
  /\ exposed_types \in
       SeqsUpTo(TypeIds, MaxInputSize - Len(bindings_vector) - Len(compressed_bindings_vector)
                           - Len(multibindings_vector))

\* The data of the candidates of the inputs below.
CandidateDataValues ==
  {CreatedObject, [created |-> FALSE, deps |-> <<>>, needs_allocation |-> TRUE]}

\* Inputs that bind every type once, to data that needs no allocation, with
\* MaxCandidates candidates and at most one exposed type: two candidates may
\* share their class or their interface.
CandidateInputs ==
  /\ bindings_vector \in
       {v \in [1..NumTypes -> RawBindings] :
          \A k \in 1..NumTypes : v[k].type = k /\ ~needsAllocation(v[k].data)}
  /\ compressed_bindings_vector \in
       {cv \in [1..MaxCandidates ->
                  {b \in CompressedBindings(bindings_vector) :
                     b.binding_data \in CandidateDataValues}] : NoChain(cv)}
  /\ multibindings_vector = <<>>
  /\ exposed_types \in SeqsUpTo(TypeIds, 1)

InitNormalize ==
  /\ ExpandIdle
  /\ MultiIdle
  /\ fixed_size_allocator_data = NoAllocatorData
  /\ SmallInputs \/ CandidateInputs
  /\ binding_data_map = EmptyMap
  /\ compressed_bindings_map = EmptyMap
  /\ bindingCompressionInfoMap = EmptyMap
  /\ result = <<>>
  /\ dedup_next = 1
  /\ rule3_pending = {}
  /\ compress_pending = {}
  /\ norm_error = <<>>
  /\ norm_pc = "dedup"

NextNormalize ==
  \/ DedupStep
  \/ AllocatorPass
  \/ BuildCompressedBindingsMap
  \/ EraseMultibindingDeps
  \/ EraseExposedTypes
  \/ DependencyStep
  \/ StartCompression
  \/ CompressStep
  \/ CopyResult

SpecNormalize == InitNormalize /\ [][NextNormalize]_vars /\ WF_vars(NextNormalize)

\* The class and interface ids of a candidate list, in list order.
CandidateIds(cv) ==
  [k \in 1..(2 * Len(cv)) |->
     IF k % 2 = 1 THEN cv[(k + 1) \div 2].class_id ELSE cv[k \div 2].interface_id]

\* TypeIds are opaque, so the types of the candidates are numbered in the
\* order in which the candidate list first names them.
CandidatesNumberedByFirstUse(cv) ==
  \A k \in 1..(2 * Len(cv)) : \A t \in 1..(CandidateIds(cv)[k] - 1) :
    \E j \in 1..(k - 1) : CandidateIds(cv)[j] = t

\* normalizeBindings on inputs that bind each of NumCompressionTypes types
\* once, to data that needs no allocation and is not a created object, with
\* MaxCandidates candidates and no multibindings or exposed types: two
\* candidates may have different classes and different interfaces.
InitCompress ==
  /\ ExpandIdle
  /\ MultiIdle
  /\ fixed_size_allocator_data = NoAllocatorData
  /\ bindings_vector \in
       [1..NumCompressionTypes ->
          {[type |-> t, data |-> [created |-> FALSE, deps |-> d, needs_allocation |-> FALSE]] :
             t \in 1..NumCompressionTypes, d \in SeqsUpTo(1..NumCompressionTypes, MaxDeps)}]
  /\ \A k \in 1..NumCompressionTypes : bindings_vector[k].type = k
  /\ compressed_bindings_vector \in
       {cv \in [1..MaxCandidates ->
                  {b \in CompressedBindings(bindings_vector) :
                     b.binding_data \in CandidateDataValues}] :
          NoChain(cv) /\ CandidatesNumberedByFirstUse(cv)}
  /\ multibindings_vector = <<>>
  /\ exposed_types = <<>>
  /\ binding_data_map = EmptyMap
  /\ compressed_bindings_map = EmptyMap
  /\ bindingCompressionInfoMap = EmptyMap
  /\ result = <<>>
  /\ dedup_next = 1
  /\ rule3_pending = {}
  /\ compress_pending = {}
  /\ norm_error = <<>>
  /\ norm_pc = "dedup"

SpecCompress == InitCompress /\ [][NextNormalize]_vars /\ WF_vars(NextNormalize)

(***************************************************************************)
(* Properties of expandLazyComponents.                                     *)
(***************************************************************************)
RECURSIVE InstallClosure(_, _)
\* The components in S and everything they install, n levels deep.
InstallClosure(S, n) ==
  IF n = 0 THEN S
  ELSE InstallClosure(S \cup UNION {Range(installs[c]) : c \in S}, n - 1)

\* Every component installed, directly or transitively, from the work-list.
ReachableComponents == InstallClosure(Range(toplevel_installs), NumComponents)

\* Every component that c installs, directly or transitively.
Descendants(c) == InstallClosure(Range(installs[c]), NumComponents)

\* Some component reachable from the work-list installs itself, directly
\* or transitively.
HasInstallationCycle == \E c \in ReachableComponents : c \in Descendants(c)

\* The components in the order in which addBindings was called on them.
ExpandedOrder == [k \in 1..Len(expansion_log) |-> expansion_log[k].component]

ExpansionEnded == expand_pc \in {"done", "fatal"}

\* C5: for an install graph without a cycle, addBindings is called at most
\* once per component at any time and, when the expansion has completed,
\* exactly once for every component reachable from the initial work-list
\* (and for no other), however many times it was installed.
C5_ExpandedExactlyOnce ==
  ~HasInstallationCycle =>
    /\ \A c \in Components : Count(ExpandedOrder, c) <= 1
    /\ expand_pc = "done" =>
         \A c \in Components :
           Count(ExpandedOrder, c) = IF c \in ReachableComponents THEN 1 ELSE 0

\* A diamond: two components of the work-list both install d, and the
\* expansion has completed with d expanded once.
C5_Witness ==
  /\ expand_pc = "done"
  /\ \E b, c, d \in Components :
       /\ b # c /\ b # d /\ c # d
       /\ {b, c} \subseteq Range(toplevel_installs)
       /\ d \in Range(installs[b])
       /\ d \in Range(installs[c])
       /\ Count(ExpandedOrder, d) = 1

\* The shape of the reported trace: without the marks it is the top-level
\* line, the expansion stack from outermost to innermost, then the repeated
\* component; there is exactly one mark, right before the stack entry equal
\* to the repeated component; and from that entry on each line's component
\* installs the next one, so the lines from the mark to the end are the
\* cycle.
TraceShape ==
  LET last == NextSlot(lazy_components)
      stack == components_expansion_stack
      marks == {k \in 1..Len(loop_trace) : loop_trace[k] = LoopStartsHereLine}
      unmarked == SelectSeq(loop_trace, LAMBDA l : l # LoopStartsHereLine)
  IN /\ unmarked = <<ToplevelLine>>
                   \o [k \in 1..Len(stack) |-> ComponentLine(stack[k])]
                   \o <<ComponentLine(last)>>
     /\ Cardinality(marks) = 1
     /\ \A m \in marks :
          /\ m + 1 < Len(loop_trace)
          /\ loop_trace[m + 1] = ComponentLine(last)
          /\ \A k \in (m + 1)..(Len(loop_trace) - 1) :
               loop_trace[k + 1].id \in Range(installs[loop_trace[k].id])

\* C6: when a component reachable from the work-list installs itself,
\* directly or transitively, the expansion ends in the fatal exit and the
\* reported trace has the shape above.
C6_CycleEndsFatalWithTrace ==
  HasInstallationCycle => <>(expand_pc = "fatal" /\ TraceShape)

\* A installs B, B installs A: the fatal exit was taken with both on the
\* expansion stack.
C6_Witness ==
  /\ expand_pc = "fatal"
  /\ Len(components_expansion_stack) >= 2
  /\ NextSlot(lazy_components) = components_expansion_stack[1]

\* The position of the last occurrence of x in s (0 when absent).
LastIndex(s, x) ==
  IF x \in Range(s) THEN CHOOSE k \in 1..Len(s) : s[k] = x /\ \A j \in (k + 1)..Len(s) : s[j] # x
  ELSE 0

\* The position of the first occurrence of x in s (0 when absent).
FirstIndex(s, x) ==
  IF x \in Range(s) THEN CHOOSE k \in 1..Len(s) : s[k] = x /\ \A j \in 1..(k - 1) : s[j] # x
  ELSE 0

\* What one installer (a component, or 0 for the top level) installed.
InstalledBy(p) == IF p = 0 THEN toplevel_installs ELSE installs[p]

ExpandedBefore(z, b) == \E k \in 1..(b - 1) : expansion_log[k].component = z

\* C9 as stated: of two components installed by the same component and
\* expanded for it, the one installed first begins first, and all that it
\* transitively installs is expanded before the other begins.
C9_SiblingsInInstallOrder ==
  \A a, b \in 1..Len(expansion_log) :
    (/\ a # b
     /\ expansion_log[a].installed_by = expansion_log[b].installed_by
     /\ expansion_log[a].installed_by # 0
     /\ FirstIndex(installs[expansion_log[a].installed_by], expansion_log[a].component)
          < FirstIndex(installs[expansion_log[b].installed_by], expansion_log[b].component))
    => /\ a < b
       /\ \A z \in Descendants(expansion_log[a].component) : ExpandedBefore(z, b)

\* C9 (amended): the loop takes the back of the work-list, so of two
\* components installed by the same installer and expanded for it, the one
\* installed last begins first, and all that it transitively installs is
\* expanded before the other begins.
C9_SiblingsInReverseInstallOrder ==
  \A a, b \in 1..Len(expansion_log) :
    (/\ a # b
     /\ expansion_log[a].installed_by = expansion_log[b].installed_by
     /\ LastIndex(InstalledBy(expansion_log[a].installed_by), expansion_log[a].component)
          > LastIndex(InstalledBy(expansion_log[b].installed_by), expansion_log[b].component))
    => /\ a < b
       /\ \A z \in Descendants(expansion_log[a].component) : ExpandedBefore(z, b)

\* One installer installed x and then y; y was expanded first, then what y
\* installs, then x.
C9_Witness ==
  /\ expand_pc = "done"
  /\ \E a, b \in 1..Len(expansion_log) :
       /\ a + 1 < b
       /\ expansion_log[a].installed_by = expansion_log[b].installed_by
       /\ expansion_log[a + 1].installed_by = expansion_log[a].component
       /\ LastIndex(InstalledBy(expansion_log[a].installed_by), expansion_log[a].component)
            > LastIndex(InstalledBy(expansion_log[b].installed_by), expansion_log[b].component)

\* C10: the expansion ends, in the normal completion or in the fatal exit,
\* and at the normal completion the expansion stack and the in-progress set
\* are empty.
C10_ExpansionTerminates ==
  /\ <>ExpansionEnded
  /\ [](expand_pc = "done" =>
          /\ components_expansion_stack = <<>>
          /\ components_with_expansion_in_progress = {})

\* A normal completion after a nested expansion.
C10_Witness ==
  /\ expand_pc = "done"
  /\ components_expansion_stack = <<>>
  /\ \E k \in 1..Len(expansion_log) : expansion_log[k].installed_by # 0

(***************************************************************************)
(* Properties of addMultibindings.                                         *)
(***************************************************************************)
\* The positions of the providers of type t in the raw list.
ProvidersOf(t) == {k \in 1..Len(raw_multibindings) : raw_multibindings[k].type = t}

\* How many providers of type t in the raw list have the factory f.
RawProvidersWith(t, f) ==
  Cardinality({k \in ProvidersOf(t) : raw_multibindings[k].data.create = f})

\* The elements the table held for t when addMultibindings was called.
ElemsAtEntry(t) ==
  IF t \in DOMAIN multibindings_at_entry THEN multibindings_at_entry[t].elems ELSE <<>>

\* The entry of t holds, after the first `skip' elements, exactly one
\* element per raw provider of t, and the accessor of those providers.
HoldsProviders(t, skip) ==
  /\ t \in DOMAIN multibindings
  /\ Len(multibindings[t].elems) = skip + Cardinality(ProvidersOf(t))
  /\ \A f \in Factories :
       Cardinality({k \in (skip + 1)..Len(multibindings[t].elems) :
                      multibindings[t].elems[k] = Elem([create |-> f])})
         = RawProvidersWith(t, f)
  /\ \A k \in ProvidersOf(t) :
       multibindings[t].get_multibindings_vector
         = raw_multibindings[k].data.get_multibindings_vector

\* C7 as stated: after addMultibindings, a type without providers has no
\* entry, and a type with N >= 1 providers has one entry of exactly N
\* elements, one per provider, with the providers' accessor.
C7_EntryHoldsExactlyTheProviders ==
  multi_pc = "done" =>
    \A t \in MultibindingTypeIds :
      IF ProvidersOf(t) = {} THEN t \notin DOMAIN multibindings
      ELSE HoldsProviders(t, 0)

\* C7 (amended): the table is an in/out parameter. After addMultibindings,
\* a type without providers has the entry it had at entry (none when it had
\* none), and a type with N >= 1 providers has one entry holding what it
\* held at entry followed by exactly N elements, one per provider, with the
\* providers' accessor.
C7_EntryGainsExactlyTheProviders ==
  multi_pc = "done" =>
    \A t \in MultibindingTypeIds :
      IF ProvidersOf(t) = {}
      THEN /\ t \in DOMAIN multibindings <=> t \in DOMAIN multibindings_at_entry
           /\ t \in DOMAIN multibindings => multibindings[t] = multibindings_at_entry[t]
      ELSE /\ HoldsProviders(t, Len(ElemsAtEntry(t)))
           /\ SubSeq(multibindings[t].elems, 1, Len(ElemsAtEntry(t))) = ElemsAtEntry(t)

\* Two providers of one type with a provider of another type between them,
\* merged into a table that was empty at entry.
C7_Witness ==
  /\ multi_pc = "done"
  /\ multibindings_at_entry = EmptyMap
  /\ \E a, b, c \in 1..Len(raw_multibindings) :
       /\ a < b /\ b < c
       /\ raw_multibindings[a].type = raw_multibindings[c].type
       /\ raw_multibindings[a].type < raw_multibindings[b].type
       /\ raw_multibindings[a].data.create # raw_multibindings[c].data.create

(***************************************************************************)
(* Properties of normalizeBindings.                                        *)
(***************************************************************************)
\* The raw entries of type t.
RawEntriesOf(t) == {k \in 1..Len(bindings_vector) : bindings_vector[k].type = t}

\* The types that have two raw entries with unequal data.
ConflictingTypes ==
  {t \in TypeIds : \E a, b \in RawEntriesOf(t) :
     bindings_vector[a].data # bindings_vector[b].data}

\* The data of the first raw entry of type t.
FirstRawData(t) ==
  bindings_vector[CHOOSE k \in RawEntriesOf(t) : \A j \in RawEntriesOf(t) : k <= j].data

BeforeCompression ==
  norm_pc \in {"candidates", "multibinding deps", "exposed types", "dependencies"}

ResultTypes == {result[k].type : k \in 1..Len(result)}

ResultData(t) == result[CHOOSE k \in 1..Len(result) : result[k].type = t].data

\* C1: when all the raw entries of each type carry equal data, normalization
\* never takes the fatal exit, the table before compression has exactly one
\* entry for each type of the input, carrying that data, and a returned
\* table never has two entries of the same type.
C1_EqualDuplicatesMerge ==
  /\ ConflictingTypes = {} =>
       /\ norm_pc # "fatal"
       /\ BeforeCompression =>
            /\ DOMAIN binding_data_map = BoundTypes(bindings_vector)
            /\ \A t \in BoundTypes(bindings_vector) : \A k \in RawEntriesOf(t) :
                 binding_data_map[t] = bindings_vector[k].data
  /\ norm_pc = "done" =>
       \A a, b \in 1..Len(result) : result[a].type = result[b].type => a = b

\* A table is returned for an input that repeats a type with equal data and
\* binds a second type.
C1_Witness ==
  /\ norm_pc = "done"
  /\ \E t \in TypeIds : Cardinality(RawEntriesOf(t)) >= 2
  /\ Cardinality(ResultTypes) >= 2
  /\ Len(result) = Cardinality(BoundTypes(bindings_vector))

\* The first raw entry that differs from an earlier entry of its type.
FirstConflictingEntry ==
  CHOOSE b \in 1..Len(bindings_vector) :
    /\ \E a \in 1..(b - 1) : /\ bindings_vector[a].type = bindings_vector[b].type
                             /\ bindings_vector[a].data # bindings_vector[b].data
    /\ \A c \in 1..(b - 1) : \A a \in 1..(c - 1) :
         bindings_vector[a].type = bindings_vector[c].type =>
           bindings_vector[a].data = bindings_vector[c].data

\* C2 as stated: for every two raw entries of one type with unequal data,
\* normalization ends in the fatal exit with a diagnostic naming that type.
C2_FatalNamesEveryConflictingType ==
  \A t \in TypeIds :
    t \in ConflictingTypes => <>(norm_pc = "fatal" /\ norm_error = multipleBindingsError(t))

\* C2: when two raw entries of one type carry unequal data, normalization
\* ends in the fatal exit with a diagnostic naming the type of the first raw
\* entry that differs from an earlier entry of its type; the first loop never
\* goes past that entry and no table is ever returned.
C2_FatalNamesFirstConflictingType ==
  /\ ConflictingTypes # {} =>
       <>(/\ norm_pc = "fatal"
          /\ norm_error = multipleBindingsError(bindings_vector[FirstConflictingEntry].type))
  /\ [](ConflictingTypes # {} =>
         /\ dedup_next <= FirstConflictingEntry
         /\ norm_pc \in {"dedup", "fatal"}
         /\ result = <<>>)

\* The fatal exit is taken for an input with two conflicting types, after
\* entries that were accepted.
C2_Witness ==
  /\ norm_pc = "fatal"
  /\ Cardinality(ConflictingTypes) = 2
  /\ dedup_next >= 3

\* The types listed as deps by a multibinding.
MultibindingDeps ==
  UNION {Range(multibindings_vector[k].data.deps) : k \in 1..Len(multibindings_vector)}

\* The candidates of class c.
CandidatesOf(c) ==
  {k \in 1..Len(compressed_bindings_vector) : compressed_bindings_vector[k].class_id = c}

\* The interface paired with class c: a later candidate replaces an earlier one.
PairedInterface(c) ==
  compressed_bindings_vector[CHOOSE k \in CandidatesOf(c) : \A j \in CandidatesOf(c) : j <= k].interface_id

\* Compression must leave the entry of c alone.
MustKeep(c) ==
  \/ c \in Range(exposed_types)
  \/ c \in MultibindingDeps
  \/ \E x \in BoundTypes(bindings_vector) :
       /\ c \in Range(getDeps(FirstRawData(x)))
       /\ CandidatesOf(c) # {} => x # PairedInterface(c)

\* C3: the entry of a type that is exposed, or a dep of a multibinding, or
\* a dep of a bound type other than the interface of its candidate, stays in
\* the table through compression and is in the returned table.
C3_CompressionKeepsNeededClasses ==
  \A c \in BoundTypes(bindings_vector) :
    MustKeep(c) =>
      /\ norm_pc \in {"compression", "aborted", "done"} => c \in DOMAIN binding_data_map
      /\ norm_pc = "done" => c \in ResultTypes

\* A table is returned in which the class of two candidates with different
\* interfaces, a dep of the interface of the first one, was kept.
C3_Witness ==
  /\ norm_pc = "done"
  /\ \E c \in BoundTypes(bindings_vector) :
       /\ \E a, b \in CandidatesOf(c) :
            /\ a < b
            /\ compressed_bindings_vector[a].interface_id # PairedInterface(c)
            /\ c \in Range(getDeps(FirstRawData(compressed_bindings_vector[a].interface_id)))
       /\ MustKeep(c)
       /\ c \in ResultTypes

\* C4 as stated: in the returned table the interface of an applied candidate
\* has the data its class had in the table before compression, and the class
\* has no entry.
C4_InterfaceGetsClassTableData ==
  norm_pc = "done" =>
    \A c \in DOMAIN bindingCompressionInfoMap :
      /\ c \notin ResultTypes
      /\ bindingCompressionInfoMap[c].i_type_id \in ResultTypes
      /\ ResultData(bindingCompressionInfoMap[c].i_type_id) = FirstRawData(c)

\* The data carried by the effective candidate of class c.
CandidateData(c) ==
  compressed_bindings_vector[CHOOSE k \in CandidatesOf(c) : \A j \in CandidatesOf(c) : j <= k].binding_data

\* C4: in the returned table the interface of an applied candidate has the
\* data carried by an applied candidate of that interface (the candidate
\* itself when it is the only one), and the class has no entry.
C4_InterfaceGetsCandidateData ==
  norm_pc = "done" =>
    \A c \in DOMAIN bindingCompressionInfoMap :
      /\ c \notin ResultTypes
      /\ bindingCompressionInfoMap[c].i_type_id \in ResultTypes
      /\ \E c2 \in DOMAIN bindingCompressionInfoMap :
           /\ PairedInterface(c2) = PairedInterface(c)
           /\ bindingCompressionInfoMap[c].i_type_id = PairedInterface(c)
           /\ ResultData(PairedInterface(c)) = CandidateData(c2)

\* A table is returned after two candidates of one interface were applied,
\* with data that differs from each other's and from the data of their
\* classes.
C4_Witness ==
  /\ norm_pc = "done"
  /\ \E c, c2 \in DOMAIN bindingCompressionInfoMap :
       /\ c # c2
       /\ PairedInterface(c) = PairedInterface(c2)
       /\ CandidateData(c) # CandidateData(c2)
       /\ CandidateData(c) # FirstRawData(c)
       /\ ResultData(PairedInterface(c)) = CandidateData(c)

\* The raw entries of type t whose data needs allocation, or does not.
RawEntriesNeeding(t, needs) ==
  {k \in RawEntriesOf(t) : needsAllocation(bindings_vector[k].data) = needs}

\* C8: when a table is returned, the accumulator holds for each type one
\* "needs allocation" count per raw entry whose data needs allocation and
\* one "externally allocated" count per raw entry whose data does not.
C8_AllocatorCountsRawEntries ==
  norm_pc = "done" =>
    \A t \in TypeIds :
      /\ CountOf(fixed_size_allocator_data.types, t) = Cardinality(RawEntriesNeeding(t, TRUE))
      /\ CountOf(fixed_size_allocator_data.externally_allocated, t) =
           Cardinality(RawEntriesNeeding(t, FALSE))

\* A table is returned for an input with a repeated entry that needs
\* allocation, after a compression removed the entry of a class.
C8_Witness ==
  /\ norm_pc = "done"
  /\ \E t \in TypeIds : Cardinality(RawEntriesNeeding(t, TRUE)) >= 2
  /\ DOMAIN bindingCompressionInfoMap # {}

\* The classes whose candidate passes the three rules: not exposed, not a dep
\* of a multibinding, not a dep of a bound type other than the interface.
Compressible == {c \in BoundTypes(bindings_vector) : CandidatesOf(c) # {} /\ ~MustKeep(c)}

\* The bound types that the returned table lacks.
RemovedTypes == BoundTypes(bindings_vector) \ ResultTypes

\* C11 as stated: when a table is returned, the compression-info map has an
\* entry exactly for the removed classes, each the class of a candidate that
\* passed the three rules, holding the interface and the data the interface
\* and the class had in the table before any compression.
C11_InfoHoldsDataBeforeAnyCompression ==
  norm_pc = "done" =>
    /\ DOMAIN bindingCompressionInfoMap = RemovedTypes
    /\ \A c \in DOMAIN bindingCompressionInfoMap :
         /\ c \in Compressible
         /\ bindingCompressionInfoMap[c].i_type_id = PairedInterface(c)
         /\ bindingCompressionInfoMap[c].i_binding_data = FirstRawData(PairedInterface(c))
         /\ bindingCompressionInfoMap[c].c_binding_data = FirstRawData(c)

\* The other applied candidates of the interface of c.
AppliedWithSameInterface(c) ==
  {c2 \in DOMAIN bindingCompressionInfoMap \ {c} : PairedInterface(c2) = PairedInterface(c)}

\* C11: when a table is returned, the compression-info map has an entry
\* exactly for the removed classes, each the class of a candidate that passed
\* the three rules, holding the interface, the data the class had before any
\* compression, and the data the interface had when the candidate was
\* applied: its data before any compression, or the data carried by another
\* applied candidate of the same interface.
C11_InfoHoldsDataAtApplication ==
  norm_pc = "done" =>
    /\ DOMAIN bindingCompressionInfoMap = RemovedTypes
    /\ \A c \in DOMAIN bindingCompressionInfoMap :
         /\ c \in Compressible
         /\ bindingCompressionInfoMap[c].i_type_id = PairedInterface(c)
         /\ bindingCompressionInfoMap[c].c_binding_data = FirstRawData(c)
         /\ bindingCompressionInfoMap[c].i_binding_data \in
              {FirstRawData(PairedInterface(c))} \cup
              {CandidateData(c2) : c2 \in AppliedWithSameInterface(c)}

\* A table is returned after two candidates of one interface were applied:
\* the entry of one of them holds the data carried by the other.
C11_Witness ==
  /\ norm_pc = "done"
  /\ \E c \in DOMAIN bindingCompressionInfoMap :
       /\ AppliedWithSameInterface(c) # {}
       /\ bindingCompressionInfoMap[c].i_binding_data # FirstRawData(PairedInterface(c))
       /\ bindingCompressionInfoMap[c].c_binding_data # bindingCompressionInfoMap[c].i_binding_data

\* The candidates the step being taken processes.
ProcessedByStep == DOMAIN bindingCompressionInfoMap' \ DOMAIN bindingCompressionInfoMap

\* The step being taken ends at a FruitAssert about a missing entry, or
\* dereferences end().
LookupFailsInStep ==
  /\ norm_pc' \in {"aborted", "undefined"}
  /\ ProcessedByStep = {}

InterfaceStaysUnallocated(i) ==
  /\ ~needsAllocation(FirstRawData(i))
  /\ \A c2 \in DOMAIN bindingCompressionInfoMap :
       compressed_bindings_map[c2].interface_id = i =>
         ~needsAllocation(compressed_bindings_map[c2].binding_data)

ProvidersNeeding(t, needs) ==
  {k \in ProvidersOf(t) : raw_multibindings[k].data.needs_allocation = needs}

\* C13: when addMultibindings returns, the accumulator has gained, for each
\* type, one "needs allocation" count per provider of the type that needs
\* allocation and one "externally allocated" count per provider that does
\* not.
C13_OneCountPerProvider ==
  multi_pc = "done" =>
    \A t \in MultibindingTypeIds :
      /\ CountOf(fixed_size_allocator_data.types, t) = Cardinality(ProvidersNeeding(t, TRUE))
      /\ CountOf(fixed_size_allocator_data.externally_allocated, t) =
           Cardinality(ProvidersNeeding(t, FALSE))

\* The routine returned for a list in which the providers of one type, one
\* that needs allocation and one that does not, are separated by a provider
\* of a type that sorts before them.
C13_Witness ==
  /\ multi_pc = "done"
  /\ \E a, b, c \in 1..Len(raw_multibindings) :
       /\ a < b /\ b < c
       /\ raw_multibindings[a].type = raw_multibindings[c].type
       /\ raw_multibindings[b].type < raw_multibindings[a].type
       /\ raw_multibindings[a].data.needs_allocation
       /\ ~raw_multibindings[c].data.needs_allocation
       /\ CountOf(fixed_size_allocator_data.types, raw_multibindings[a].type) = 1

(***************************************************************************)
(* Further properties of expandLazyComponents.                             *)
(***************************************************************************)
\* The loop is about to test its condition.
AtLoopStart == expand_pc = "loop"

\* C14: at the start of every iteration the in-progress set has exactly the
\* components of the expansion stack, as many as the stack has entries, no
\* two entries of the stack are equal, and no component of the
\* fully-expanded set is left in the in-progress set.
C14_InProgressSetIsTheStack ==
  AtLoopStart =>
    /\ components_with_expansion_in_progress = Range(components_expansion_stack)
    /\ Cardinality(components_with_expansion_in_progress) = Len(components_expansion_stack)
    /\ \A a, b \in 1..Len(components_expansion_stack) :
         components_expansion_stack[a] = components_expansion_stack[b] => a = b
    /\ components_with_expansion_in_progress \cap fully_expanded_components = {}

\* An iteration starts with two components in progress, one nested in the
\* other, after a third one was moved to the fully-expanded set.
C14_Witness ==
  /\ AtLoopStart
  /\ Len(components_expansion_stack) = 2
  /\ Cardinality(components_with_expansion_in_progress) = 2
  /\ fully_expanded_components # {}

\* C15: the fully-expanded set grows only when a boundary marker is popped,
\* by the component on top of the expansion stack, and then every component
\* that component installs is in the set already; so the set always contains
\* what its members transitively install, and on normal completion it is the
\* set of the components reachable from the initial work-list.
C15_FullyExpandedIsClosed ==
  /\ [](/\ \A c \in fully_expanded_components : Descendants(c) \subseteq fully_expanded_components
        /\ expand_pc = "done" => fully_expanded_components = ReachableComponents)
  /\ [][fully_expanded_components' # fully_expanded_components =>
          /\ lazy_components # <<>>
          /\ NextSlot(lazy_components) = EmptyPtr
          /\ components_expansion_stack # <<>>
          /\ fully_expanded_components' =
               fully_expanded_components \cup {Back(components_expansion_stack)}
          /\ Range(installs[Back(components_expansion_stack)]) \subseteq
               fully_expanded_components]_vars

\* The loop ended normally after three components, nested in one another,
\* were fully expanded and a fourth install was discarded.
C15_Witness ==
  /\ expand_pc = "done"
  /\ fully_expanded_components = Components
  /\ Len(toplevel_installs) = 1
  /\ \E c \in Components : Len(installs[c]) = 2
  /\ \E c \in Components : Len(installs[c]) = 1
  /\ Len(expansion_log) = NumComponents

\* C16: the fatal exit is taken only when a cycle of installs is reachable
\* from the initial work-list, and is taken whenever one is.
C16_FatalExactlyOnCycles ==
  /\ [](expand_pc = "fatal" => HasInstallationCycle)
  /\ [](expand_pc = "done" => ~HasInstallationCycle)
  /\ HasInstallationCycle => <>(expand_pc = "fatal")

\* The loop ended normally although one component was installed twice by
\* one component and once more by another one.
C16_Witness ==
  /\ expand_pc = "done"
  /\ \E c \in Components : \E p, q \in InstallerNodes :
       /\ p # q
       /\ Count(InstalledBy(p), c) = 2
       /\ c \in Range(InstalledBy(q))
       /\ p \in ReachableComponents
       /\ c \in fully_expanded_components

\* The positions of the boundary markers in the work-list, bottom first.
MarkerPositions ==
  Ascending({k \in 1..Len(lazy_components) : lazy_components[k] = EmptyPtr})

\* The slots of the work-list above its k-th marker and below the next one
\* (k = 0: the slots below the first marker).
PendingAbove(k) ==
  LET from == IF k = 0 THEN 1 ELSE MarkerPositions[k] + 1
      to == IF k = Len(MarkerPositions) THEN Len(lazy_components)
            ELSE MarkerPositions[k + 1] - 1
  IN SubSeq(lazy_components, from, to)

IsPrefix(s, t) == Len(s) <= Len(t) /\ s = SubSeq(t, 1, Len(s))

\* C19: at the start of every iteration the work-list has as many markers as
\* the expansion stack has entries, the slots above the k-th marker and below
\* the next one are installs of the k-th stack entry still pending, and those
\* below the first marker are pending slots of the initial work-list; a
\* marker is popped only with a non-empty stack, whose top it removes, and
\* then no install of that top is pending.
C19_MarkersMatchTheStack ==
  /\ [](expand_pc # "undefined")
  /\ [](AtLoopStart =>
          /\ Len(MarkerPositions) = Len(components_expansion_stack)
          /\ IsPrefix(PendingAbove(0), toplevel_installs)
          /\ \A k \in 1..Len(MarkerPositions) :
               k <= Len(components_expansion_stack) =>
                 IsPrefix(PendingAbove(k), installs[components_expansion_stack[k]]))
  /\ [][(AtLoopStart /\ lazy_components # <<>> /\ NextSlot(lazy_components) = EmptyPtr) =>
          /\ components_expansion_stack # <<>>
          /\ components_expansion_stack' = PopBack(components_expansion_stack)
          /\ lazy_components' = PopBack(lazy_components)
          /\ PendingAbove(Len(MarkerPositions)) = <<>>]_vars

\* An iteration starts with two markers in the work-list, an install of the
\* outer component pending between them and one of the inner above them.
C19_Witness ==
  /\ AtLoopStart
  /\ Len(MarkerPositions) = 2
  /\ Len(components_expansion_stack) = 2
  /\ PendingAbove(1) # <<>>
  /\ PendingAbove(2) # <<>>

(***************************************************************************)
(* Further properties of normalizeBindings.                                *)
(***************************************************************************)
\* The table the first loop builds.
DedupTable == [t \in BoundTypes(bindings_vector) |-> FirstRawData(t)]

\* The candidate map when the loop over the table starts.
CandidatesBeforeDependencyRule ==
  EraseAll(EraseMultibindingDepsFrom(PutCandidates(EmptyMap, compressed_bindings_vector, 1),
                                     multibindings_vector, 1),
           exposed_types, 1)

\* The loop at line 165 run over the table in the given order.
RECURSIVE DependencyRuleInOrder(_, _, _, _)
DependencyRuleInOrder(m, table, order, k) ==
  IF k > Len(order) THEN m
  ELSE DependencyRuleInOrder(
         IF ~isCreated(table[order[k]])
         THEN EraseDependedOn(m, order[k], getDeps(table[order[k]]), 1)
         ELSE m,
         table, order, k + 1)

\* The candidates left when the table is scanned in ascending order.
Survivors ==
  DependencyRuleInOrder(CandidatesBeforeDependencyRule, DedupTable,
                        Ascending(DOMAIN DedupTable), 1)

\* The loop at line 189 run over the candidates in the given order.
RECURSIVE CompressInOrder(_, _, _, _)
CompressInOrder(st, m, order, k) ==
  IF k > Len(order) THEN st
  ELSE LET c_id == order[k]
           i_id == m[c_id].interface_id
       IN CompressInOrder(
            [table |-> ApplyCompression(st.table, c_id, i_id, m[c_id].binding_data),
             info |-> MapPut(st.info, c_id,
                             BindingCompressionInfo(i_id, st.table[i_id], st.table[c_id]))],
            m, order, k + 1)

\* The table and the compression-info map when the candidates m are applied
\* in ascending order.
AscendingOutcome(m) ==
  CompressInOrder([table |-> DedupTable, info |-> EmptyMap], m, Ascending(DOMAIN m), 1)

ResultTable == [t \in ResultTypes |-> ResultData(t)]

\* C17 as stated: whatever the order of the two loops, the candidates left
\* by the dependency rule, the returned table and the compression-info map
\* are those of any other order, so those of the ascending order.
C17_OutcomeIsThatOfAnyOrder ==
  norm_pc \in {"compression", "done"} =>
    LET m == Survivors
        out == AscendingOutcome(m)
    IN /\ compressed_bindings_map = m
       /\ norm_pc = "done" =>
            /\ ResultTable = out.table
            /\ bindingCompressionInfoMap = out.info

\* The candidates of m other than c that have the interface of c.
SharingInterface(m, c) ==
  {c2 \in DOMAIN m \ {c} : m[c2].interface_id = m[c].interface_id}

\* Type t is the interface of two candidates of m.
IsSharedInterface(m, t) ==
  \E c \in DOMAIN m : m[c].interface_id = t /\ SharingInterface(m, c) # {}

\* C17: whatever the order of the two loops, the candidates left by the
\* dependency rule are the same, and so are the types of the returned table,
\* the classes of the compression-info map, and every entry of both except
\* the table entry of an interface that two surviving candidates share and
\* the interface data recorded for such candidates.
C17_OutcomeIsThatOfAnyOrderButSharedInterfaces ==
  norm_pc \in {"compression", "done"} =>
    LET m == Survivors
        out == AscendingOutcome(m)
    IN /\ compressed_bindings_map = m
       /\ norm_pc = "done" =>
            /\ ResultTypes = DOMAIN out.table
            /\ \A t \in ResultTypes :
                 ~IsSharedInterface(m, t) => ResultData(t) = out.table[t]
            /\ DOMAIN bindingCompressionInfoMap = DOMAIN out.info
            /\ \A c \in DOMAIN bindingCompressionInfoMap :
                 /\ bindingCompressionInfoMap[c].i_type_id = out.info[c].i_type_id
                 /\ bindingCompressionInfoMap[c].c_binding_data = out.info[c].c_binding_data
                 /\ SharingInterface(m, c) = {} => bindingCompressionInfoMap[c] = out.info[c]

\* A table is returned after two candidates with different classes and
\* different interfaces were applied, the greater class first.
C17_Witness ==
  /\ norm_pc = "done"
  /\ \E c1, c2 \in DOMAIN bindingCompressionInfoMap :
       /\ c1 < c2
       /\ bindingCompressionInfoMap[c1].i_type_id # bindingCompressionInfoMap[c2].i_type_id
       /\ CandidateData(c1) # CandidateData(c2)
       /\ ResultData(PairedInterface(c1)) = CandidateData(c1)
       /\ ResultData(PairedInterface(c2)) = CandidateData(c2)

\* The interfaces, other than the paired one, of the candidates of class c.
ReplacedInterfaces(c) ==
  {compressed_bindings_vector[k].interface_id : k \in CandidatesOf(c)} \ {PairedInterface(c)}

\* Class c is left alone: it has no candidate when compression starts, it
\* keeps its entry and it gets no entry in the compression-info map.
NotCompressed(c) ==
  /\ norm_pc \in {"compression", "aborted", "done"} =>
       /\ c \notin DOMAIN compressed_bindings_map
       /\ c \in DOMAIN binding_data_map
       /\ c \notin DOMAIN bindingCompressionInfoMap
  /\ norm_pc = "done" => c \in ResultTypes

InputDepsAreBound ==
  \A k \in 1..Len(bindings_vector) :
    ~isCreated(bindings_vector[k].data) =>
      Range(getDeps(bindings_vector[k].data)) \subseteq BoundTypes(bindings_vector)

\* Every candidate carries the dependency list of the binding of its class.
CandidatesCarryClassDeps ==
  \A k \in 1..Len(compressed_bindings_vector) :
    LET candidate == compressed_bindings_vector[k]
        class_data == FirstRawData(candidate.class_id)
    IN /\ isCreated(candidate.binding_data) = isCreated(class_data)
       /\ getDeps(candidate.binding_data) = getDeps(class_data)

\* The entries of the returned table with a dependency that has no entry.
DanglingEntries ==
  {t \in ResultTypes :
     ~isCreated(ResultData(t)) /\ ~(Range(getDeps(ResultData(t))) \subseteq ResultTypes)}

=============================================================================
